---- MODULE Spec2Model ----
(***************************************************************************)
(* geomdl/multi.py: AbstractContainer and its three typed subclasses.      *)
(*                                                                         *)
(* The containers are modelled as objects with the fields _geoms (the      *)
(* element list), _cache['evalpts'] and _iter_index.  add() is recursive   *)
(* and is modelled statement by statement with an explicit call stack, so  *)
(* that an exception raised in the middle of a bulk insertion and a        *)
(* traversal that never ends are both behaviours of the model.             *)
(* The caller's for loops over a container and an evalpts read by a second *)
(* thread are modelled step by step as well, each in its own               *)
(* specification: IterSpec and ConcSpec.                                   *)
(***************************************************************************)
EXTENDS Integers, Sequences, FiniteSets, TLC

\* Longest element list a container may hold in the model.
MaxGeoms == 3

\* Deepest nesting of the caller's for loops over containers.
MaxNest == 2

(***************************************************************************)
(* The objects of the model.                                               *)
(***************************************************************************)

\* Container objects: two CurveContainer instances and one SurfaceContainer.
Containers == {"A", "B", "S"}

\* The concrete class of a container object (self.__class__).
ClassOf(k) == IF k = "S" THEN "SurfaceContainer" ELSE "CurveContainer"

\* The element kind a typed container is documented to hold.
ElementKind(cls) ==
  CASE cls = "CurveContainer" -> "curve"
    [] cls = "SurfaceContainer" -> "surface"
    [] OTHER -> "volume"

\* Spline geometry objects: two curves and one surface.
Geometries == {"c1", "c2", "s1"}

\* The kind of a spline geometry.
GeomKind(g) == IF g = "s1" THEN "surface" ELSE "curve"

\* g.evalpts of a spline geometry (points are numbered); c2 has none.
GeomEvalpts(g) ==
  CASE g = "c1" -> <<1, 2>>
    [] g = "c2" -> <<>>
    [] OTHER -> <<3>>

\* g.bbox of a spline geometry: one (min, max) extent per axis.
GeomBBox(g) ==
  CASE g = "c1" -> << <<0, 1>>, <<0, 1>> >>
    [] g = "c2" -> << <<2, 3>>, <<-1, 0>> >>
    [] OTHER -> << <<-2, 0>>, <<1, 2>> >>

(***************************************************************************)
(* Python values handed to add(): a spline geometry, a container, a list   *)
(* or tuple of values, or anything else.                                   *)
(***************************************************************************)
Geom(g) == [t |-> "geom", id |-> g, items |-> <<>>]
Cont(k) == [t |-> "cont", id |-> k, items |-> <<>>]
List(xs) == [t |-> "seq", id |-> "", items |-> xs]
Other == [t |-> "other", id |-> "", items |-> <<>>]
NoArg == [t |-> "none", id |-> "", items |-> <<>>]

\* Values that are not lists.
Atoms == {Geom(g) : g \in Geometries} \cup {Cont(k) : k \in Containers} \cup {Other}

\* Lists of at most two items: of geometries, with an item add() rejects, with a container.
FlatLists ==
  {List(<<>>), List(<<Geom("c1"), Geom("c2")>>), List(<<Geom("c1"), Other>>),
   List(<<Geom("c2"), Cont("B")>>), List(<<Geom("c1"), Cont("A")>>)}

\* Lists that hold a list.
NestedLists ==
  {List(<<List(<<Geom("c1"), Geom("c2")>>), Geom("c1")>>),
   List(<<List(<<Geom("c2"), Other>>), Geom("c1")>>)}

\* The arguments add() is called with.
ArgSet == Atoms \cup FlatLists \cup NestedLists

\* The positional arguments a container is constructed with.
ConstructArgs ==
  {<<>>, <<Geom("c1"), Geom("c2")>>, <<List(<<Geom("c2")>>), Geom("s1")>>,
   <<Geom("c1"), Other>>}

\* The right operands of the + operator.
MergeArgs == {Cont(k) : k \in Containers} \cup {Geom("c1"), List(<<Geom("c1")>>)}

\* The containers that add(), + and the properties are called on; the others are
\* constructed and passed as arguments.
Receivers == {"A"}

VARIABLES
  _geoms,       \* [container -> its element list]
  _cache,       \* [container -> its _cache['evalpts'] list]
  _iter_index,  \* [container -> its iteration cursor]
  constructed,  \* the containers whose constructor has returned
  stack,        \* the add() invocations in progress, innermost last
  call,         \* the public call in progress or just finished
  hist,         \* per container: leaves inserted by successful calls, -1 once one failed
  prevEval,     \* per container: whether evalpts was read, whether no insertion has
                \* succeeded since, and the points that read returned
  trav,         \* the caller's "for g in container" loops in progress, innermost last
  rd            \* an evalpts read that runs statement by statement beside add()

vars == <<_geoms, _cache, _iter_index, constructed, stack, call, hist, prevEval, trav, rd>>

(***************************************************************************)
(* Helpers on arguments.                                                   *)
(***************************************************************************)
RECURSIVE SumSeq(_)
SumSeq(s) == IF s = <<>> THEN 0 ELSE Head(s) + SumSeq(Tail(s))

\* The containers an argument mentions.
RECURSIVE ContsOf(_)
ContsOf(a) ==
  CASE a.t = "cont" -> {a.id}
    [] a.t = "seq" -> UNION {ContsOf(a.items[i]) : i \in 1..Len(a.items)}
    [] OTHER -> {}

\* The number of leaf geometries of an argument, containers counted by their elements in gs.
RECURSIVE LeafCount(_, _)
LeafCount(a, gs) ==
  CASE a.t = "geom" -> 1
    [] a.t = "cont" -> Len(gs[a.id])
    [] a.t = "seq" -> SumSeq([i \in 1..Len(a.items) |-> LeafCount(a.items[i], gs)])
    [] OTHER -> 0

\* The call fits under MaxGeoms; a call that traverses its own receiver is never held back.
Fits(self, a) == self \in ContsOf(a) \/ Len(_geoms[self]) + LeafCount(a, _geoms) <= MaxGeoms

\* A "for g in c" loop of the caller: the container, the elements the loop has been
\* handed, whether no other traversal of c has begun since this one did, how the
\* caller's previous loop ended when this one follows it directly, and where that loop
\* left the cursor.
NoLoop == [c |-> "", out |-> <<>>, alone |-> TRUE, after |-> "none", from |-> 0]

\* A traversal of k begins: the loops in progress on k no longer have k's cursor alone.
Disturb(tr, k) ==
  [i \in 1..Len(tr) |-> IF tr[i].c = k THEN [tr[i] EXCEPT !.alone = FALSE] ELSE tr[i]]

NoCall ==
  [op |-> "none", self |-> "", arg |-> NoArg, status |-> "idle",
   pre |-> [k \in Containers |-> <<>>], preCache |-> [k \in Containers |-> <<>>],
   retSelf |-> "", retPts |-> <<>>, retBox |-> <<>>, reads |-> 0,
   hadPrev |-> FALSE, prevPts |-> <<>>, afterInsert |-> FALSE,
   index |-> 0, retElem |-> NoArg, retLen |-> 0, retSeq |-> <<>>, retData |-> <<>>,
   loop |-> NoLoop]

NoRead == [seen |-> FALSE, fresh |-> FALSE, pts |-> <<>>]

\* The evalpts read of a second thread: no read is in progress.  A read records the
\* element list at its first and at its last statement and what it returned; raced
\* tells whether a call of add() has ever run between the first and the last statement
\* of a read.
NoReader ==
  [pc |-> "idle", self |-> "", i |-> 0, start |-> <<>>, final |-> <<>>, ret |-> <<>>,
   raced |-> FALSE]

\* A call of add() on self begins: it overlaps the read in progress on self, if any.
Overlap(r, self) ==
  IF r.pc \notin {"idle", "done"} /\ r.self = self THEN [r EXCEPT !.raced = TRUE] ELSE r

NewCall(op, self, a) ==
  [NoCall EXCEPT !.op = op, !.self = self, !.arg = a, !.status = "running",
                 !.pre = _geoms, !.preCache = _cache]

Idle == call.status = "idle"
Running == call.status = "running" /\ stack # <<>>
Top == stack[Len(stack)]
SetTop(f) == [stack EXCEPT ![Len(stack)] = f]
Pop == SubSeq(stack, 1, Len(stack) - 1)
Frame(g) == [geom |-> g, pc |-> "test", i |-> 0]

(***************************************************************************)
(* Code outside multi.py that add() relies on.                             *)
(***************************************************************************)

\* Geometry.reset(): clears the cached evaluated points of the container.
reset(cch, self) == [cch EXCEPT ![self] = <<>>]

\* Geometry.__iter__(): the container is its own iterator; the cursor restarts.
__iter__(idx, k) == [idx EXCEPT ![k] = 0]

(***************************************************************************)
(* __next__                                                                *)
(***************************************************************************)
\* Mutant: the traversal stops one element early.
next_stops_early(gs, idx) == idx + 1 >= Len(gs)
\* self._geoms[self._iter_index] raises IndexError, turned into StopIteration.
next_stops(gs, idx) == idx >= Len(gs)
\* Mutant: the cursor is counted from the end of the list.
next_result_back(gs, idx) == gs[Len(gs) - idx]
\* result = self._geoms[self._iter_index]
next_result(gs, idx) == gs[idx + 1]
\* Mutant: the cursor advances by two.
next_index_skip(idx) == idx + 2
\* self._iter_index += 1
next_index(idx) == idx + 1

\* list(c) once iter(c) has set the cursor: __next__ is called until StopIteration.
RECURSIVE list_all(_, _)
list_all(gs, idx) ==
  IF next_stops(gs, idx) THEN <<>>
  ELSE <<next_result(gs, idx)>> \o list_all(gs, next_index(idx))

(***************************************************************************)
(* add                                                                     *)
(***************************************************************************)
\* Mutant: any container passes, as with isinstance(other, AbstractContainer).
IsSelfClass_any(self, geom) == geom.t = "cont"
\* isinstance(other, self.__class__)
IsSelfClass(self, geom) == geom.t = "cont" /\ ClassOf(geom.id) = ClassOf(self)
\* isinstance(geom, GeomdlTypeSequence)
IsTypeSequence(geom) == geom.t = "seq"
\* isinstance(geom, (self.__class__, GeomdlTypeSequence))
IsIterableArg(self, geom) == IsSelfClass(self, geom) \/ IsTypeSequence(geom)
\* Mutant: the test is made against Geometry, which containers derive from too.
IsSplineGeometry_base(self, geom) == geom.t \in {"geom", "cont"}
\* isinstance(geom, SplineGeometry)
IsSplineGeometry(self, geom) == geom.t = "geom"
\* Mutant: the element is put at the front, as self._geoms.insert(0, geom) does.
append_geom_front(gs, geom) == <<geom>> \o gs
\* self._geoms.append(geom)
append_geom(gs, geom) == Append(gs, geom)
\* Mutant: add() ends without resetting the cache.
add_reset_cache_skip(cch, self) == cch
\* the statement self.reset() that ends add()
add_reset_cache(cch, self) == reset(cch, self)

\* What a call that ends leaves in the bookkeeping variables.
Finish(st) ==
  /\ call' = [call EXCEPT !.status = st,
                          !.retSelf = IF st = "ok" /\ call.op = "merge" THEN call.self ELSE ""]
  /\ hist' = [hist EXCEPT ![call.self] =
                IF st = "ok" /\ @ >= 0 THEN @ + LeafCount(call.arg, call.pre) ELSE -1]
  /\ prevEval' = IF st = "ok"
                  THEN [prevEval EXCEPT ![call.self] = [@ EXCEPT !.fresh = FALSE, !.pts = <<>>]]
                  ELSE prevEval

\* raise GeomdlError: no frame handles it, the public call fails.  A constructor that
\* fails returns no object.
Raise ==
  /\ stack' = <<>>
  /\ IF call.op = "init"
     THEN /\ call' = [call EXCEPT !.status = "err"]
          /\ _geoms' = [_geoms EXCEPT ![call.self] = <<>>]
          /\ _cache' = [_cache EXCEPT ![call.self] = <<>>]
          /\ UNCHANGED <<hist, prevEval>>
     ELSE /\ Finish("err")
          /\ UNCHANGED <<_geoms, _cache>>
  /\ UNCHANGED <<_iter_index, constructed>>

\* Lines 97, 100, 102: the isinstance tests of add(), and the start of its for loop.
add_test ==
  /\ UNCHANGED rd
  /\ Running /\ Top.pc = "test"
  /\ trav' = IF IsIterableArg(call.self, Top.geom) /\ Top.geom.t = "cont"
             THEN Disturb(trav, Top.geom.id) ELSE trav
  /\ IF IsIterableArg(call.self, Top.geom)
     THEN /\ stack' = SetTop([Top EXCEPT !.pc = "loop"])
          /\ _iter_index' = IF Top.geom.t = "cont" THEN __iter__(_iter_index, Top.geom.id)
                            ELSE _iter_index
          /\ UNCHANGED <<_geoms, _cache, constructed, call, hist, prevEval>>
     ELSE IF IsSplineGeometry(call.self, Top.geom)
     THEN /\ stack' = SetTop([Top EXCEPT !.pc = "append"])
          /\ UNCHANGED <<_geoms, _cache, _iter_index, constructed, call, hist, prevEval>>
     ELSE Raise

\* Lines 98-99: one turn of "for g in geom: self.add(g)".
add_loop ==
  /\ UNCHANGED <<trav, rd>>
  /\ Running /\ Top.pc = "loop"
  /\ LET f == Top
         k == f.geom.id
     IN IF f.geom.t = "cont"
        THEN IF next_stops(_geoms[k], _iter_index[k])
             THEN /\ stack' = SetTop([f EXCEPT !.pc = "reset"])
                  /\ UNCHANGED _iter_index
             ELSE /\ stack' = Append(stack, Frame(next_result(_geoms[k], _iter_index[k])))
                  /\ _iter_index' = [_iter_index EXCEPT ![k] = next_index(@)]
        ELSE /\ IF f.i >= Len(f.geom.items)
                THEN stack' = SetTop([f EXCEPT !.pc = "reset"])
                ELSE stack' = Append(SetTop([f EXCEPT !.i = @ + 1]), Frame(f.geom.items[f.i + 1]))
             /\ UNCHANGED _iter_index
  /\ UNCHANGED <<_geoms, _cache, constructed, call, hist, prevEval>>

\* Line 101.
add_append ==
  /\ UNCHANGED <<trav, rd>>
  /\ Running /\ Top.pc = "append"
  /\ Len(_geoms[call.self]) < MaxGeoms
  /\ _geoms' = [_geoms EXCEPT ![call.self] = append_geom(@, Top.geom)]
  /\ stack' = SetTop([Top EXCEPT !.pc = "reset"])
  /\ UNCHANGED <<_cache, _iter_index, constructed, call, hist, prevEval>>

\* Lines 105-106, and the return of add(); __add__ then returns self (line 51).
add_reset ==
  /\ UNCHANGED <<trav, rd>>
  /\ Running /\ Top.pc = "reset"
  /\ _cache' = add_reset_cache(_cache, call.self)
  /\ stack' = Pop
  /\ IF Len(stack) = 1 THEN Finish("ok") ELSE UNCHANGED <<call, hist, prevEval>>
  /\ UNCHANGED <<_geoms, _iter_index, constructed>>

\* add(geom): the public call begins.
add(self, geom) ==
  /\ trav' = trav /\ rd' = Overlap(rd, self)
  /\ Idle /\ self \in constructed /\ ContsOf(geom) \subseteq constructed
  /\ Fits(self, geom)
  /\ stack' = <<Frame(geom)>>
  /\ call' = NewCall("add", self, geom)
  /\ UNCHANGED <<_geoms, _cache, _iter_index, constructed, hist, prevEval>>

\* Line 109: append = add
append(self, geom) == add(self, geom)

(***************************************************************************)
(* __add__                                                                 *)
(***************************************************************************)
\* Line 48: isinstance(other, self.__class__)
add_operand_ok(self, other) == IsSelfClass(self, other)

__add__(self, other) ==
  /\ trav' = trav /\ rd' = Overlap(rd, self)
  /\ Idle /\ self \in constructed /\ ContsOf(other) \subseteq constructed
  /\ Fits(self, other)
  /\ IF add_operand_ok(self, other)
     THEN /\ stack' = <<Frame(other)>>
          /\ call' = NewCall("merge", self, other)
          /\ UNCHANGED <<hist, prevEval>>
     ELSE /\ stack' = <<>>
          /\ call' = [NewCall("merge", self, other) EXCEPT !.status = "err"]
          /\ hist' = [hist EXCEPT ![self] = -1]
          /\ UNCHANGED prevEval
  /\ UNCHANGED <<_geoms, _cache, _iter_index, constructed>>

(***************************************************************************)
(* __init__                                                                *)
(***************************************************************************)
\* Lines 20-26: the fields of a new container.
__init__(self, args) ==
  /\ UNCHANGED <<trav, rd>>
  /\ Idle /\ self \notin constructed /\ ContsOf(List(args)) \subseteq constructed
  /\ Fits(self, List(args))
  /\ _geoms' = [_geoms EXCEPT ![self] = <<>>]
  /\ _cache' = [_cache EXCEPT ![self] = <<>>]
  /\ _iter_index' = [_iter_index EXCEPT ![self] = 0]
  /\ stack' = <<[geom |-> List(args), pc |-> "init", i |-> 0]>>
  /\ call' = [NewCall("init", self, List(args)) EXCEPT !.pre = _geoms', !.preCache = _cache']
  /\ UNCHANGED <<constructed, hist, prevEval>>

\* Lines 27-28: "for arg in args: self.add(arg)", then the constructor returns.
init_loop ==
  /\ UNCHANGED <<trav, rd>>
  /\ Running /\ Top.pc = "init"
  /\ IF Top.i >= Len(Top.geom.items)
     THEN /\ stack' = <<>>
          /\ constructed' = constructed \cup {call.self}
          /\ call' = [call EXCEPT !.status = "ok"]
          /\ hist' = [hist EXCEPT ![call.self] = LeafCount(call.arg, call.pre)]
     ELSE /\ stack' = Append(SetTop([Top EXCEPT !.i = @ + 1]), Frame(Top.geom.items[Top.i + 1]))
          /\ UNCHANGED <<constructed, call, hist>>
  /\ UNCHANGED <<_geoms, _cache, _iter_index, prevEval>>

(***************************************************************************)
(* evalpts                                                                 *)
(***************************************************************************)
\* Line 62: not self._cache['evalpts']
cache_is_empty(pts) == pts = <<>>

\* Lines 63-64: for g in self._geoms: self._cache['evalpts'] += g.evalpts
RECURSIVE evalpts_loop(_, _)
evalpts_loop(pts, gs) ==
  IF gs = <<>> THEN pts ELSE evalpts_loop(pts \o GeomEvalpts(Head(gs).id), Tail(gs))

evalpts(self) ==
  /\ UNCHANGED <<trav, rd>>
  /\ Idle /\ self \in constructed
  /\ LET miss == cache_is_empty(_cache[self])
         pts == IF miss THEN evalpts_loop(_cache[self], _geoms[self]) ELSE _cache[self]
     IN /\ _cache' = [_cache EXCEPT ![self] = pts]
        /\ call' = [NewCall("evalpts", self, NoArg) EXCEPT
                      !.status = "ok", !.retPts = pts,
                      !.reads = IF miss THEN Len(_geoms[self]) ELSE 0,
                      !.hadPrev = prevEval[self].fresh,
                      !.prevPts = prevEval[self].pts,
                      !.afterInsert = prevEval[self].seen /\ ~prevEval[self].fresh]
        /\ prevEval' = [prevEval EXCEPT ![self] = [seen |-> TRUE, fresh |-> TRUE, pts |-> pts]]
  /\ UNCHANGED <<_geoms, _iter_index, constructed, stack, hist>>

(***************************************************************************)
(* bbox                                                                    *)
(***************************************************************************)
Min(S) == CHOOSE x \in S : \A y \in S : x <= y
Max(S) == CHOOSE x \in S : \A y \in S : x >= y

\* The number of axes of the space the geometries live in.
NumAxes == Len(GeomBBox("c1"))

\* Mutant: all_box = list(g.bbox), so the pool keeps the last element's box alone.
RECURSIVE bbox_pool_last(_, _)
bbox_pool_last(all_box, gs) ==
  IF gs = <<>> THEN all_box ELSE bbox_pool_last(GeomBBox(Head(gs).id), Tail(gs))

\* Lines 76-78: for g in self._geoms: all_box += list(g.bbox)
RECURSIVE bbox_pool(_, _)
bbox_pool(all_box, gs) ==
  IF gs = <<>> THEN all_box ELSE bbox_pool(all_box \o GeomBBox(Head(gs).id), Tail(gs))

\* utilities.evaluate_bounding_box: per axis, the least lower bound and the greatest
\* upper bound of the pooled extents; the extents of one axis are NumAxes apart.
evaluate_bounding_box(all_box) ==
  [a \in 1..NumAxes |->
     LET idx == {i \in 1..Len(all_box) : (i - 1) % NumAxes = a - 1}
     IN << Min({all_box[i][1] : i \in idx}), Max({all_box[i][2] : i \in idx}) >>]

\* Lines 76-79; on an empty container evaluate_bounding_box has nothing to bound.
bbox(self) ==
  /\ UNCHANGED <<trav, rd>>
  /\ Idle /\ self \in constructed
  /\ LET all_box == bbox_pool(<<>>, _geoms[self])
     IN call' = IF all_box = <<>>
                THEN [NewCall("bbox", self, NoArg) EXCEPT !.status = "err"]
                ELSE [NewCall("bbox", self, NoArg) EXCEPT
                        !.status = "ok", !.retBox = evaluate_bounding_box(all_box)]
  /\ UNCHANGED <<_geoms, _cache, _iter_index, constructed, stack, hist, prevEval>>

(***************************************************************************)
(* __getitem__, __len__, __reversed__, data                                *)
(***************************************************************************)
\* The indexes __getitem__ is called with: one below zero to one past the bound.
IndexSet == (0 - 1)..(MaxGeoms + 1)

\* Line 42: self._geoms[index] raises IndexError unless -len <= index < len.
list_index_ok(gs, index) == 0 - Len(gs) <= index /\ index < Len(gs)

\* Mutant: the index is taken as counting from one.
list_item_from_one(gs, index) == IF index >= 1 THEN gs[index] ELSE gs[Len(gs)]
\* Line 42: self._geoms[index]; a negative index counts from the end.
list_item(gs, index) == IF index >= 0 THEN gs[index + 1] ELSE gs[Len(gs) + index + 1]

\* Mutant: __getitem__ takes the element out of the list, as self._geoms.pop(index) does.
getitem_pop(self, index) ==
  /\ UNCHANGED <<trav, rd>>
  /\ Idle /\ self \in constructed
  /\ list_index_ok(_geoms[self], index) /\ index >= 0
  /\ call' = [NewCall("getitem", self, NoArg) EXCEPT
                !.status = "ok", !.index = index, !.retElem = list_item(_geoms[self], index)]
  /\ _geoms' = [_geoms EXCEPT ![self] =
                  SubSeq(@, 1, index) \o SubSeq(@, index + 2, Len(@))]
  /\ UNCHANGED <<_cache, _iter_index, constructed, stack, hist, prevEval>>

\* Lines 41-42.
__getitem__(self, index) ==
  /\ UNCHANGED <<trav, rd>>
  /\ Idle /\ self \in constructed
  /\ call' = IF list_index_ok(_geoms[self], index)
             THEN [NewCall("getitem", self, NoArg) EXCEPT
                     !.status = "ok", !.index = index, !.retElem = list_item(_geoms[self], index)]
             ELSE [NewCall("getitem", self, NoArg) EXCEPT !.status = "err", !.index = index]
  /\ UNCHANGED <<_geoms, _cache, _iter_index, constructed, stack, hist, prevEval>>

\* Line 45: len(self._geoms)
list_len(gs) == Len(gs)

\* Lines 44-45.
__len__(self) ==
  /\ UNCHANGED <<trav, rd>>
  /\ Idle /\ self \in constructed
  /\ call' = [NewCall("len", self, NoArg) EXCEPT !.status = "ok", !.retLen = list_len(_geoms[self])]
  /\ UNCHANGED <<_geoms, _cache, _iter_index, constructed, stack, hist, prevEval>>

\* Mutant: the list is handed back in its own order.
reversed_geoms_same(gs) == gs
\* Line 39: reversed(self._geoms), read to its end.
reversed_geoms(gs) == [i \in 1..Len(gs) |-> gs[Len(gs) + 1 - i]]

\* Lines 38-39, and the caller reading the reverse iterator to its end.
__reversed__(self) ==
  /\ UNCHANGED <<trav, rd>>
  /\ Idle /\ self \in constructed
  /\ call' = [NewCall("reversed", self, NoArg) EXCEPT
                !.status = "ok", !.retSeq = reversed_geoms(_geoms[self])]
  /\ UNCHANGED <<_geoms, _cache, _iter_index, constructed, stack, hist, prevEval>>

\* g.data of a spline geometry.
GeomData(g) == <<"data", g>>

\* Mutant: the comprehension misses the last element.
data_tuple_short(gs) == [i \in 1..(Len(gs) - 1) |-> GeomData(gs[i].id)]
\* Line 88: tuple([g.data for g in self._geoms])
data_tuple(gs) == [i \in 1..Len(gs) |-> GeomData(gs[i].id)]

\* Lines 81-88.
data(self) ==
  /\ UNCHANGED <<trav, rd>>
  /\ Idle /\ self \in constructed
  /\ call' = [NewCall("data", self, NoArg) EXCEPT
                !.status = "ok", !.retData = data_tuple(_geoms[self])]
  /\ UNCHANGED <<_geoms, _cache, _iter_index, constructed, stack, hist, prevEval>>

(***************************************************************************)
(* The caller's for loops over a container: iter(c), then __next__ until   *)
(* StopIteration or until the loop is left by break.                       *)
(***************************************************************************)
\* The containers the caller loops over.
IterConts == {"B"}

\* "for g in k:" begins, inside the loops in progress or, outside of them, right after
\* the previous loop over k ended: iter(k) restarts k's cursor and hands back k itself.
iter_begin(k) ==
  /\ UNCHANGED rd
  /\ Idle \/ (trav = <<>> /\ call.op \in {"for", "break"} /\ call.self = k)
  /\ k \in constructed /\ Len(trav) < MaxNest
  /\ _iter_index' = __iter__(_iter_index, k)
  /\ trav' = Append(Disturb(trav, k),
                    [c |-> k, out |-> <<>>, alone |-> TRUE, after |-> call.op,
                     from |-> IF Idle THEN 0 ELSE _iter_index[k]])
  /\ call' = NoCall
  /\ UNCHANGED <<_geoms, _cache, constructed, stack, hist, prevEval>>

\* Lines 30-36: the innermost loop calls __next__; StopIteration ends the loop.  A loop
\* whose cursor is restarted again and again by the loops inside it is handed elements
\* without end: the model follows it for MaxGeoms elements.
iter_next ==
  /\ UNCHANGED rd
  /\ Idle /\ trav # <<>>
  /\ LET t == trav[Len(trav)]
         k == t.c
     IN IF next_stops(_geoms[k], _iter_index[k])
        THEN /\ trav' = SubSeq(trav, 1, Len(trav) - 1)
             /\ call' = [NewCall("for", k, NoArg) EXCEPT
                           !.status = "ok", !.retSeq = t.out, !.loop = t]
             /\ UNCHANGED _iter_index
        ELSE /\ Len(t.out) < MaxGeoms
             /\ trav' = [trav EXCEPT ![Len(trav)].out =
                           Append(@, next_result(_geoms[k], _iter_index[k]))]
             /\ _iter_index' = [_iter_index EXCEPT ![k] = next_index(@)]
             /\ UNCHANGED call
  /\ UNCHANGED <<_geoms, _cache, constructed, stack, hist, prevEval>>

\* The innermost loop is left by break after it was handed an element.
iter_break ==
  /\ UNCHANGED rd
  /\ Idle /\ trav # <<>> /\ trav[Len(trav)].out # <<>>
  /\ trav' = SubSeq(trav, 1, Len(trav) - 1)
  /\ call' = [NewCall("break", trav[Len(trav)].c, NoArg) EXCEPT
                !.status = "ok", !.loop = trav[Len(trav)]]
  /\ UNCHANGED <<_geoms, _cache, _iter_index, constructed, stack, hist, prevEval>>

(***************************************************************************)
(* evalpts read by a second thread, one statement at a time, while the     *)
(* first thread is inside add().                                           *)
(***************************************************************************)
\* The first thread is inside add() on k.
Inserting(k) == call.status = "running" /\ call.op \in {"add", "merge"} /\ call.self = k

\* Line 62 is reached: the read begins.
rd_begin(k) ==
  /\ rd.pc = "idle" /\ k \in constructed
  /\ rd' = [NoReader EXCEPT !.pc = "test", !.self = k, !.start = _geoms[k],
                            !.raced = rd.raced \/ Inserting(k)]
  /\ UNCHANGED <<_geoms, _cache, _iter_index, constructed, stack, call, hist, prevEval, trav>>

\* Line 62: if not self._cache['evalpts']
rd_test ==
  /\ rd.pc = "test"
  /\ rd' = [rd EXCEPT !.pc = IF cache_is_empty(_cache[rd.self]) THEN "loop" ELSE "ret",
                      !.raced = @ \/ Inserting(rd.self)]
  /\ UNCHANGED <<_geoms, _cache, _iter_index, constructed, stack, call, hist, prevEval, trav>>

\* Lines 63-64: the list iterator of self._geoms hands out the element at its index, if
\* the list as it is now has one, and its points are added to the cache as it is now.
rd_loop ==
  /\ rd.pc = "loop"
  /\ LET k == rd.self
     IN IF rd.i >= Len(_geoms[k])
        THEN /\ rd' = [rd EXCEPT !.pc = "ret", !.raced = @ \/ Inserting(k)]
             /\ UNCHANGED _cache
        ELSE /\ _cache' = [_cache EXCEPT ![k] = @ \o GeomEvalpts(_geoms[k][rd.i + 1].id)]
             /\ rd' = [rd EXCEPT !.i = @ + 1, !.raced = @ \/ Inserting(k)]
  /\ UNCHANGED <<_geoms, _iter_index, constructed, stack, call, hist, prevEval, trav>>

\* Line 65: return self._cache['evalpts']
rd_return ==
  /\ rd.pc = "ret"
  /\ rd' = [rd EXCEPT !.pc = "done", !.ret = _cache[rd.self], !.final = _geoms[rd.self],
                      !.raced = @ \/ Inserting(rd.self)]
  /\ UNCHANGED <<_geoms, _cache, _iter_index, constructed, stack, call, hist, prevEval, trav>>

\* The second thread takes the result of its read.
rd_take ==
  /\ rd.pc = "done"
  /\ rd' = [NoReader EXCEPT !.raced = rd.raced]
  /\ UNCHANGED <<_geoms, _cache, _iter_index, constructed, stack, call, hist, prevEval, trav>>

\* The caller takes the result of the finished call.
Return ==
  /\ UNCHANGED <<trav, rd>>
  /\ call.status \in {"ok", "err"}
  /\ call' = NoCall
  /\ UNCHANGED <<_geoms, _cache, _iter_index, constructed, stack, hist, prevEval>>

Init ==
  /\ _geoms = [k \in Containers |-> <<>>]
  /\ _cache = [k \in Containers |-> <<>>]
  /\ _iter_index = [k \in Containers |-> 0]
  /\ constructed = {}
  /\ stack = <<>>
  /\ call = NoCall
  /\ hist = [k \in Containers |-> 0]
  /\ prevEval = [k \in Containers |-> NoRead]
  /\ trav = <<>>
  /\ rd = NoReader

Step == add_test \/ add_loop \/ add_append \/ add_reset \/ init_loop

Next ==
  \/ \E k \in Containers, args \in ConstructArgs : __init__(k, args)
  \/ \E k \in Receivers, a \in ArgSet : add(k, a)
  \/ \E k \in Receivers, a \in ArgSet : append(k, a)
  \/ \E k \in Receivers, a \in MergeArgs : __add__(k, a)
  \/ \E k \in Receivers : evalpts(k)
  \/ \E k \in Receivers : bbox(k)
  \/ \E k \in Receivers, i \in IndexSet : __getitem__(k, i)
  \/ \E k \in Receivers : __len__(k)
  \/ \E k \in Receivers : __reversed__(k)
  \/ \E k \in Receivers : data(k)
  \/ add_test
  \/ add_loop
  \/ add_append
  \/ add_reset
  \/ init_loop
  \/ Return

Spec == Init /\ [][Next]_vars

\* A call in progress keeps running: the interpreter executes its next statement.
FairSpec == Spec /\ WF_vars(Step)

\* The positional arguments the looped-over containers are constructed with.
IterConstructArgs ==
  {<<>>, <<Geom("c1"), Geom("c2")>>, <<Geom("c2"), Geom("c1"), Geom("c1")>>}

\* The arguments add() is called with between and inside the caller's loops.
IterArgs == {Geom("c1"), Cont("B")}

\* The containers with the caller's for loops, single-threaded: a loop body calls add()
\* or holds another loop, and every call runs to its end before the loop goes on; the
\* properties are read between the loops.
IterNext ==
  \/ \E k \in Receivers \cup IterConts, args \in IterConstructArgs : __init__(k, args)
  \/ \E k \in Receivers, a \in IterArgs : add(k, a)
  \/ \E k \in Receivers : trav = <<>> /\ evalpts(k)
  \/ \E k \in Receivers : trav = <<>> /\ bbox(k)
  \/ \E k \in Receivers, i \in IndexSet : trav = <<>> /\ __getitem__(k, i)
  \/ \E k \in Receivers : trav = <<>> /\ __len__(k)
  \/ \E k \in Receivers : trav = <<>> /\ __reversed__(k)
  \/ \E k \in Receivers : trav = <<>> /\ data(k)
  \/ \E k \in IterConts : iter_begin(k)
  \/ iter_next
  \/ iter_break
  \/ add_test
  \/ add_loop
  \/ add_append
  \/ add_reset
  \/ init_loop
  \/ Return

IterSpec == Init /\ [][IterNext]_vars

\* The positional arguments the shared container is constructed with.
ConcConstructArgs == {<<>>, <<Geom("c1")>>}

\* The arguments the first thread calls add() with.
ConcArgs == {Geom("c1"), Geom("c2"), List(<<Geom("c1"), Geom("c2")>>)}

\* Two threads on one container: the first calls add(), the second reads evalpts; the
\* interpreter switches between them after any statement.
ConcNext ==
  \/ \E k \in Receivers, args \in ConcConstructArgs : __init__(k, args)
  \/ \E k \in Receivers, a \in ConcArgs : add(k, a)
  \/ \E k \in Receivers : rd_begin(k)
  \/ rd_test
  \/ rd_loop
  \/ rd_return
  \/ rd_take
  \/ add_test
  \/ add_loop
  \/ add_append
  \/ add_reset
  \/ init_loop
  \/ Return

ConcSpec == Init /\ [][ConcNext]_vars

(***************************************************************************)
(* Properties.                                                             *)
(***************************************************************************)
Mutating == {"add", "merge"}
Ids(gs) == [i \in 1..Len(gs) |-> gs[i].id]
IsPrefix(s, t) == Len(s) <= Len(t) /\ SubSeq(t, 1, Len(s)) = s
\* The read operations that keep nothing.
ReadOps == {"getitem", "len", "reversed", "bbox", "data"}

\* The evaluated points of the elements gs, concatenated in element order.
RECURSIVE ConcatPoints(_)
ConcatPoints(gs) ==
  IF gs = <<>> THEN <<>>
  ELSE ConcatPoints(SubSeq(gs, 1, Len(gs) - 1)) \o GeomEvalpts(gs[Len(gs)].id)

\* The leaf geometries of an argument in iteration order, containers read in gs.
RECURSIVE Flatten(_, _)
RECURSIVE FlattenItems(_, _)
Flatten(a, gs) ==
  CASE a.t = "geom" -> <<a>>
    [] a.t = "cont" -> gs[a.id]
    [] a.t = "seq" -> FlattenItems(a.items, gs)
    [] OTHER -> <<>>
FlattenItems(xs, gs) ==
  IF xs = <<>> THEN <<>> ELSE Flatten(Head(xs), gs) \o FlattenItems(Tail(xs), gs)

\* C1: whenever evalpts returns, what it returns is the concatenation, in element
\* order, of the evaluated points of all the elements the container holds at that
\* moment, whatever insertions, merges and reads came before.
C1_EvalptsIsConcatenation ==
  (call.op = "evalpts" /\ call.status = "ok") =>
    call.retPts = ConcatPoints(_geoms[call.self])

\* C1 witness: a read that follows a successful insertion made after an earlier read,
\* on a container whose points are not empty.
C1_Witness ==
  /\ call.op = "evalpts" /\ call.status = "ok" /\ call.afterInsert
  /\ Len(_geoms[call.self]) >= 2 /\ call.retPts # <<>>

\* C2: a call of add or + that fails leaves the receiver's elements and its cache as
\* they were when the call began.
C2_FailedCallMutatesNothing ==
  (call.op \in Mutating /\ call.status = "err") =>
    /\ _geoms[call.self] = call.pre[call.self]
    /\ _cache[call.self] = call.preCache[call.self]

\* C3: while every call on a container has succeeded, the length of its element list
\* is the number of leaf geometries handed to its constructor, add and + so far.
C3_LengthIsLeafCount ==
  \A k \in constructed :
    (hist[k] >= 0 /\ (call.status # "running" \/ call.self # k)) =>
      Len(_geoms[k]) = hist[k]

\* C3 witness: a nested list has just been flattened into a container that holds
\* three leaves after calls that all succeeded.
C3_Witness ==
  /\ call.op = "add" /\ call.status = "ok"
  /\ call.arg = List(<<List(<<Geom("c1"), Geom("c2")>>), Geom("c1")>>)
  /\ hist[call.self] = 3

\* C4: every element of a container is a spline geometry of the kind the container's
\* class is documented to hold.
C4_ElementsHaveContainerKind ==
  \A k \in constructed : \A i \in 1..Len(_geoms[k]) :
    /\ _geoms[k][i].t = "geom"
    /\ GeomKind(_geoms[k][i].id) = ElementKind(ClassOf(k))

\* C5: every call that has begun returns or fails.
C5_CallTerminates == (call.status = "running") ~> (call.status # "running")

\* A call whose argument does not hold its receiver returns or fails: the model's
\* bound on the element lists stops no such call.
CallsOnOthersTerminate ==
  (call.status = "running" /\ call.self \notin ContsOf(call.arg)) ~> (call.status # "running")

\* While add() traverses its own non-empty receiver, every turn of the loop appends one
\* element for the one it took, so the cursor stays as far from the end of the list as
\* it began and __next__ never raises StopIteration, whatever MaxGeoms is.
SelfTraversalNeverEnds ==
  (call.status = "running" /\ call.op \in Mutating /\ call.arg = Cont(call.self)
     /\ call.pre[call.self] # <<>> /\ Len(stack) = 1 /\ Top.pc = "loop") =>
    /\ Len(_geoms[call.self]) - _iter_index[call.self] = Len(call.pre[call.self])
    /\ ~next_stops(_geoms[call.self], _iter_index[call.self])

\* C6: add or + with a container of another class never succeeds and never gets past
\* the isinstance tests; the receiver's elements and cache stay as they were.
C6_WrongKindContainerRejected ==
  (call.op \in Mutating /\ call.arg.t = "cont" /\ ClassOf(call.arg.id) # ClassOf(call.self)) =>
    /\ call.status \in {"running", "err"}
    /\ call.status = "running" => (Len(stack) = 1 /\ Top.pc = "test")
    /\ _geoms[call.self] = call.pre[call.self]
    /\ _cache[call.self] = call.preCache[call.self]

\* C6 witness: add was refused a non-empty container of another class while the
\* receiver held elements and a populated cache.
C6_Witness ==
  /\ call.op = "add" /\ call.status = "err" /\ call.arg = Cont("S")
  /\ _geoms["S"] # <<>> /\ _geoms[call.self] # <<>> /\ _cache[call.self] # <<>>

\* C7: + with another container of the receiver's class does not fail at its type test,
\* and when it returns it returns the receiver, whose elements are its old elements
\* followed by the other container's, the other container's elements being unchanged.
C7_MergeInPlace ==
  (call.op = "merge" /\ call.arg.t = "cont" /\ call.arg.id # call.self
     /\ ClassOf(call.arg.id) = ClassOf(call.self)) =>
    /\ call.status # "err"
    /\ call.status = "ok" =>
         /\ call.retSelf = call.self
         /\ _geoms[call.self] = call.pre[call.self] \o call.pre[call.arg.id]
         /\ _geoms[call.arg.id] = call.pre[call.arg.id]

\* C7 witness: a non-empty container has been merged into a non-empty one.
C7_Witness ==
  /\ call.op = "merge" /\ call.status = "ok" /\ call.arg = Cont("B") /\ call.self = "A"
  /\ call.pre["A"] # <<>> /\ Len(call.pre["B"]) = 2 /\ Len(_geoms["A"]) = 3

\* C8: a read of evalpts that follows another read with no successful insertion in
\* between returns the same points and reads no element's points.
C8_SecondReadIsCacheHit ==
  (call.op = "evalpts" /\ call.hadPrev) =>
    (call.retPts = call.prevPts /\ call.reads = 0)

\* The box that encloses the boxes of the elements gs.
EnclosingBox(gs) ==
  [a \in 1..NumAxes |->
     << Min({GeomBBox(gs[i].id)[a][1] : i \in 1..Len(gs)}),
        Max({GeomBBox(gs[i].id)[a][2] : i \in 1..Len(gs)}) >>]

\* C9: bbox of a non-empty container is, per axis, the least lower bound and the
\* greatest upper bound of its elements' boxes; with one element it is that element's
\* box, and boxes [0,1]x[0,1] and [2,3]x[-1,0] give [0,3]x[-1,1].
C9_BBoxEncloses ==
  (call.op = "bbox" /\ _geoms[call.self] # <<>>) =>
    /\ call.status = "ok"
    /\ call.retBox = EnclosingBox(_geoms[call.self])
    /\ Len(_geoms[call.self]) = 1 => call.retBox = GeomBBox(_geoms[call.self][1].id)
    /\ Ids(_geoms[call.self]) = <<"c1", "c2">> => call.retBox = << <<0, 3>>, <<-1, 1>> >>

\* C9 witness: bbox was read on a container that holds the two curves.
C9_Witness ==
  call.op = "bbox" /\ call.status = "ok" /\ Ids(_geoms[call.self]) = <<"c1", "c2">>

\* C10: no element is a container or a list, and a constructor, add or + call that
\* returns has appended the leaf geometries of its argument, in iteration order.
C10_InsertFlattens ==
  /\ \A k \in Containers : \A i \in 1..Len(_geoms[k]) : _geoms[k][i].t = "geom"
  /\ (call.op \in {"init", "add", "merge"} /\ call.status = "ok") =>
       _geoms[call.self] = call.pre[call.self] \o Flatten(call.arg, call.pre)

\* C10 witness: a list holding a geometry and a non-empty container has been inserted.
C10_Witness ==
  /\ call.op = "add" /\ call.status = "ok"
  /\ call.arg = List(<<Geom("c2"), Cont("B")>>) /\ Len(call.pre["B"]) = 2
  /\ Len(_geoms[call.self]) = 3

\* C11: __getitem__ with 0 <= i < len returns the i-th element in insertion order, and
\* with i >= len, i = len included, it raises IndexError; the container is unchanged.
C11_IndexInRange ==
  (call.op = "getitem" /\ call.index >= 0) =>
    /\ call.index < Len(call.pre[call.self]) =>
         (call.status = "ok" /\ call.retElem = call.pre[call.self][call.index + 1])
    /\ call.index >= Len(call.pre[call.self]) => call.status = "err"
    /\ _geoms = call.pre /\ _cache = call.preCache

\* C11 witness: the index one past the end of a container of two or more elements was
\* refused.
C11_Witness ==
  /\ call.op = "getitem" /\ call.status = "err"
  /\ call.index = Len(_geoms[call.self]) /\ Len(_geoms[call.self]) >= 2

\* C12: a for loop over a container begun after an earlier loop over it ran to its end
\* or was left by break starts at the first element: as long as no other traversal of
\* the container begins meanwhile, the loop is handed the elements in order from the
\* first, and when it ends it has been handed every element exactly once.
C12_TraversalStartsAtFirst ==
  /\ \A i \in 1..Len(trav) :
       trav[i].alone => IsPrefix(trav[i].out, _geoms[trav[i].c])
  /\ (call.op \in {"for", "break"} /\ call.loop.alone) =>
       IsPrefix(call.loop.out, _geoms[call.self])
  /\ (call.op = "for" /\ call.loop.alone) => call.retSeq = _geoms[call.self]

\* C12 witness: a loop over three elements ran to its end right after a loop that was
\* left by break with the cursor on the second element.
C12_Witness ==
  /\ call.op = "for" /\ call.loop.alone /\ call.loop.after = "break" /\ call.loop.from = 1
  /\ Len(call.retSeq) = 3

\* The sequence s read from its last item to its first.
RECURSIVE Reverse(_)
Reverse(s) == IF s = <<>> THEN <<>> ELSE Append(Reverse(Tail(s)), Head(s))

\* C13: reversed(c) read to its end is the reverse of list(c), and list(c) is the
\* element list in insertion order.
C13_ReverseOfForward ==
  (call.op = "reversed") =>
    LET k == call.self
        fwd == list_all(_geoms[k], __iter__(_iter_index, k)[k])
    IN /\ call.status = "ok"
       /\ fwd = _geoms[k]
       /\ call.retSeq = Reverse(fwd)

\* C13 witness: a container of three elements, the first unlike the last, was read in
\* reverse.
C13_Witness ==
  /\ call.op = "reversed" /\ Len(call.retSeq) = 3 /\ call.retSeq[1] # call.retSeq[3]

\* C14: when add, append or + has returned, the receiver's cache is empty, whatever it
\* held before and whether or not an element was added.
C14_CacheEmptyAfterInsert ==
  (call.op \in Mutating /\ call.status = "ok") => _cache[call.self] = <<>>

\* C14 witness: an empty list was inserted into a container whose cache was populated.
C14_Witness ==
  /\ call.op = "add" /\ call.status = "ok" /\ call.arg = List(<<>>)
  /\ call.preCache[call.self] # <<>> /\ _geoms[call.self] = call.pre[call.self]

\* C15: in every step the element list of a constructed container is a prefix of what
\* it is after the step: no element is removed, replaced or moved.
C15_ElementsOnlyGrow ==
  [][\A k \in constructed : IsPrefix(_geoms[k], _geoms'[k])]_vars

\* C15 witness: a call has appended elements to a container that already held some.
C15_Witness ==
  /\ call.op \in Mutating /\ call.status = "ok"
  /\ call.pre[call.self] # <<>> /\ Len(_geoms[call.self]) > Len(call.pre[call.self])

\* C16: __len__, __getitem__, __reversed__, bbox, data and every step of a for loop
\* leave the element lists and the caches as they are; evalpts leaves the element
\* lists as they are and writes the cache of its own container only.
C16_ReadsMutateNothing ==
  [][/\ (Idle /\ call'.op \in ReadOps) => (_geoms' = _geoms /\ _cache' = _cache)
     /\ (call.status # "running" /\ trav' # trav) => (_geoms' = _geoms /\ _cache' = _cache)
     /\ (Idle /\ call'.op = "evalpts") =>
          /\ _geoms' = _geoms
          /\ \A k \in Containers \ {call'.self} : _cache'[k] = _cache[k]]_vars

\* C16 witness: an element of a container with a populated cache was read by index.
C16_Witness ==
  /\ call.op = "getitem" /\ call.status = "ok"
  /\ Len(_geoms[call.self]) >= 2 /\ _cache[call.self] # <<>>

C18_ReadIsConcatenationAtSomeInstant ==
  (rd.pc = "done") =>
    \E n \in Len(rd.start)..Len(rd.final) : rd.ret = ConcatPoints(SubSeq(rd.final, 1, n))

\* As long as no call of add() has overlapped a read, every read returns the
\* concatenation of the points of every element.
SerialReadIsConcatenation ==
  (rd.pc = "done" /\ ~rd.raced) => rd.ret = ConcatPoints(rd.final)

\* C19: a for loop over a container that runs to its end is handed every element of
\* the container, whatever other traversals of the same container begin meanwhile.
C19_TraversalsIndependent ==
  (call.op = "for") => call.retSeq = _geoms[call.self]

====
